---- MODULE Spec2Model ----
(***************************************************************************)
(* A model of the Apple Notes export/organise tool: notes_core.py (text    *)
(* normalisation, tokenising, folder suggestion, rendering, export),       *)
(* app.py (web handlers) and notes_organizer.py (command line).            *)
(*                                                                         *)
(* Text is modelled character by character: a Python str is a sequence of  *)
(* one-character strings.  The two separator characters that cannot be     *)
(* written in a TLA+ string are named RECORD_SEPARATOR and FIELD_SEPARATOR.*)
(***************************************************************************)
EXTENDS Integers, Sequences, FiniteSets, TLC

VARIABLES
    x,          \* strip_html study: the input text
    once,       \* strip_html study: strip_html(x), once computed
    twice,      \* strip_html study: strip_html(strip_html(x)), once computed
    note,       \* suggest_folder study: the NoteRecord
    known,      \* suggest_folder study: known_folders
    suggestion, \* suggest_folder study: the SuggestedFolder, once computed
    now,        \* wall clock, in whole seconds
    files,      \* the file system: path -> content of every regular file
    dirs,       \* the file system: the directories that exist
    calls,      \* the number of export_notes calls made so far
    last        \* the outcome of the latest handler or command

vars == <<x, once, twice, note, known, suggestion, now, files, dirs, calls, last>>

-----------------------------------------------------------------------------
(* Characters and character classes                                        *)

RECORD_SEPARATOR == "<RS>"
FIELD_SEPARATOR == "<FS>"

UpperCase == <<"A","B","C","D","E","F","G","H","I","J","K","L","M",
               "N","O","P","Q","R","S","T","U","V","W","X","Y","Z">>
LowerCase == <<"a","b","c","d","e","f","g","h","i","j","k","l","m",
               "n","o","p","q","r","s","t","u","v","w","x","y","z">>
Digits == {"0","1","2","3","4","5","6","7","8","9"}

Range(s) == {s[i] : i \in DOMAIN s}

LowerOf == [c \in Range(UpperCase) |->
               LowerCase[CHOOSE i \in DOMAIN UpperCase : UpperCase[i] = c]]

\* str.lower() on one character
Lower(c) == IF c \in DOMAIN LowerOf THEN LowerOf[c] ELSE c

\* str.lower()
LowerStr(s) == SubSeq([i \in 1..Len(s) |-> Lower(s[i])], 1, Len(s))

\* the characters str.strip() removes and the regex class \s matches
IsSpace(c) == c \in {" ", "\t", "\n", "\r", "\f", RECORD_SEPARATOR, FIELD_SEPARATOR}

AlnumChars == Range(LowerCase) \cup Digits

\* the regex class [a-z0-9]
IsAlnum(c) == c \in AlnumChars

\* the positions 1..Len(s) of s that satisfy Test, in increasing order
Positions(s, Test(_)) == SelectSeq([i \in 1..Len(s) |-> i], Test)

Min(S) == CHOOSE m \in S : \A n \in S : m <= n
Max(S) == CHOOSE m \in S : \A n \in S : m >= n

\* s[i:] starts with p
IsPrefixAt(s, i, p) ==
    /\ i >= 1
    /\ i + Len(p) - 1 <= Len(s)
    /\ SubSeq(s, i, i + Len(p) - 1) = p

\* the least element of a set of positions, 0 when it is empty
MinOr0(S) == IF S = {} THEN 0 ELSE Min(S)

\* the first position >= i where p occurs in s, 0 when there is none
FindFrom(s, i, p) == MinOr0({k \in i..Len(s) : IsPrefixAt(s, k, p)})

\* a strip that takes off one space at the start and one at the end
StripOneSpace(s) ==
    SubSeq(s, IF s # <<>> /\ IsSpace(s[1]) THEN 2 ELSE 1,
           IF Len(s) > 1 /\ IsSpace(s[Len(s)]) THEN Len(s) - 1 ELSE Len(s))

\* s[K[1] .. K[-1]] for the positions K that are kept, "" when there is none
Between(s, K) == IF K = <<>> THEN <<>> ELSE SubSeq(s, K[1], K[Len(K)])

\* str.strip()
Strip(s) == Between(s, Positions(s, LAMBDA k : ~IsSpace(s[k])))

RECURSIVE Concat(_)
Concat(ss) == IF ss = <<>> THEN <<>> ELSE Head(ss) \o Concat(Tail(ss))

-----------------------------------------------------------------------------
(* strip_html                                                              *)

\* re.sub(pattern, repl, s) from position i on.  The pattern is given by its
\* matches: ends[k] is the last position of the match that starts at k, and 0
\* when there is no match at k.  Matches are taken leftmost first and do not
\* overlap.
RECURSIVE Sub(_, _, _, _)
RECURSIVE SubAt(_, _, _, _, _)
Sub(s, ends, repl, i) ==
    SubAt(s, ends, repl, i, MinOr0({k \in i..Len(s) : ends[k] # 0}))

\* k is the start of the leftmost match at or after i, 0 when there is none
SubAt(s, ends, repl, i, k) ==
    IF k = 0 THEN SubSeq(s, i, Len(s))
    ELSE SubSeq(s, i, k - 1) \o repl \o Sub(s, ends, repl, ends[k] + 1)

\* the last position of a match that ends with the text of length n found at
\* k, or 0 when it was not found (k = 0)
EndAt(k, n) == IF k = 0 THEN 0 ELSE k + n - 1

\* the rest of a match of <style[\s\S]*?>[\s\S]*?</style> whose opening ">"
\* is at j (0: no ">")
BlockClose(s, j, close) ==
    IF j = 0 THEN 0 ELSE EndAt(FindFrom(s, j + 1, close), Len(close))

\* the last position of the match of <style[\s\S]*?>[\s\S]*?</style> at i, or
\* 0: open is "<style", close is "</style>"
BlockEnd(s, i, open, close) ==
    IF IsPrefixAt(s, i, open)
    THEN BlockClose(s, FindFrom(s, i + Len(open), <<">">>), close)
    ELSE 0

\* re.sub(r"<style[\s\S]*?>[\s\S]*?</style>", "", s)
SubBlock(s, open, close) ==
    Sub(s, [k \in 1..Len(s) |-> BlockEnd(s, k, open, close)], <<>>, 1)

\* the position after the run of \s that starts at i
SkipSpace(s, i) == Min({k \in i..Len(s) : ~IsSpace(s[k])} \cup {Len(s) + 1})

\* the character of s at position i, "" past the end
At(s, i) == IF i \in 1..Len(s) THEN s[i] ELSE ""

\* the position after the optional "/" at p
SkipSlash(s, p) == IF At(s, p) = "/" THEN p + 1 ELSE p

\* q when s has ">" at q, or 0
CloseAt(s, q) == IF At(s, q) = ">" THEN q ELSE 0

\* the last position of the match of <br\s*/?> (ignoring case) at i, or 0:
\* s is the text in lower case
BrEnd(s, i) ==
    IF IsPrefixAt(s, i, <<"<","b","r">>)
    THEN CloseAt(s, SkipSlash(s, SkipSpace(s, i + 3)))
    ELSE 0

\* the matches of <br\s*/?> in the lower-case text ls
BrEnds(ls) == [k \in 1..Len(ls) |-> BrEnd(ls, k)]

\* re.sub(r"<br\s*/?>", "\n", s, flags=re.IGNORECASE)
SubBr(s) == Sub(s, BrEnds(LowerStr(s)), <<"\n">>, 1)

\* the matches of </p> in the lower-case text ls
ClosePEnds(ls) ==
    [k \in 1..Len(ls) |-> IF IsPrefixAt(ls, k, <<"<","/","p",">">>) THEN k + 3 ELSE 0]

\* re.sub(r"</p>", "\n\n", s, flags=re.IGNORECASE)
SubCloseP(s) == Sub(s, ClosePEnds(LowerStr(s)), <<"\n","\n">>, 1)

\* j when the ">" found at j leaves at least one character after the "<" at i
TagClose(i, j) == IF j >= i + 2 THEN j ELSE 0

\* the last position of the match of <[^>]+> at i, or 0
TagEnd(s, i) ==
    IF At(s, i) = "<" THEN TagClose(i, FindFrom(s, i + 1, <<">">>)) ELSE 0

\* re.sub(r"<[^>]+>", "", s)
SubTag(s) == Sub(s, [k \in 1..Len(s) |-> TagEnd(s, k)], <<>>, 1)

\* html.entities.html5, restricted to the references the modelled texts can
\* hold: each is defined with and without its closing semicolon
Html5 ==
    [name \in {<<"a","m","p">>, <<"a","m","p",";">>, <<"l","t">>, <<"l","t",";">>,
               <<"g","t">>, <<"g","t",";">>, <<"q","u","o","t">>, <<"q","u","o","t",";">>} |->
        CASE name[1] = "a" -> <<"&">>
          [] name[1] = "l" -> <<"<">>
          [] name[1] = "g" -> <<">">>
          [] name[1] = "q" -> <<"\"">>]

\* the characters [^\t\n\f <&#;] of html's character-reference pattern
IsRefChar(c) == c \notin {"\t", "\n", "\f", " ", "<", "&", "#", ";"}

\* the last position of the greedy run [^\t\n\f <&#;]{1,32} that starts at i
\* (i - 1 when the run is empty)
RefNameEnd(s, i) ==
    Min({Min({k \in i..Len(s) : ~IsRefChar(s[k])} \cup {Len(s) + 1}) - 1,
         i + 31})

\* the last position of the match of &([^\t\n\f <&#;]{1,32};?) whose name
\* ends at e
RefEnd(s, e) == IF At(s, e + 1) = ";" THEN e + 1 ELSE e

\* the last position of the match of html's character-reference pattern at k,
\* or 0 (numeric references are outside the modelled texts)
CharrefEnd(s, k) ==
    IF s[k] = "&" /\ RefNameEnd(s, k + 1) > k
    THEN RefEnd(s, RefNameEnd(s, k + 1))
    ELSE 0

\* the longest proper prefix of s that is a name of html5, as its length p,
\* replaced: html5[s[:p]] + s[p:]
ReplacePrefix(s, p) == Html5[SubSeq(s, 1, p)] \o SubSeq(s, p + 1, Len(s))

\* the lengths p of the prefixes found, 0 when there is none
ReplaceLongest(s, p) == IF p = 0 THEN <<"&">> \o s ELSE ReplacePrefix(s, p)

\* html._replace_charref for a named reference s (the text after the "&")
ReplaceCharref(s) ==
    IF s \in DOMAIN Html5 THEN Html5[s]
    ELSE ReplaceLongest(s, Max({p \in 2..(Len(s) - 1) :
                                    SubSeq(s, 1, p) \in DOMAIN Html5} \cup {0}))

RECURSIVE Unescape(_, _, _)
RECURSIVE UnescapeAt(_, _, _, _)
\* html.unescape(s) from position i on: ends gives the matches of the
\* character-reference pattern
Unescape(s, ends, i) ==
    UnescapeAt(s, ends, i, MinOr0({k \in i..Len(s) : ends[k] # 0}))

\* k is the start of the leftmost reference at or after i, 0 when there is
\* none
UnescapeAt(s, ends, i, k) ==
    IF k = 0 THEN SubSeq(s, i, Len(s))
    ELSE SubSeq(s, i, k - 1) \o ReplaceCharref(SubSeq(s, k + 1, ends[k]))
         \o Unescape(s, ends, ends[k] + 1)

\* html.unescape(s)
unescape(s) == Unescape(s, [k \in 1..Len(s) |-> CharrefEnd(s, k)], 1)

strip_html(html_text) ==
    Strip(unescape(SubTag(SubCloseP(SubBr(
        SubBlock(SubBlock(html_text, <<"<","s","t","y","l","e">>, <<"<","/","s","t","y","l","e",">">>),
                 <<"<","s","c","r","i","p","t">>, <<"<","/","s","c","r","i","p","t",">">>))))))

-----------------------------------------------------------------------------

(* tokenize, slugify                                                       *)

\* the runs of t that start at starts[n] and end at ends[n]
Runs(t, starts, ends) ==
    [n \in 1..Len(starts) |-> SubSeq(t, starts[n], ends[n])]

\* re.findall(r"[a-z0-9]+", t): the maximal runs, left to right
FindAlnum(t) ==
    Runs(t,
         Positions(t, LAMBDA i : IsAlnum(t[i]) /\ (i = 1 \/ ~IsAlnum(t[i - 1]))),
         Positions(t, LAMBDA i :
                      IsAlnum(t[i]) /\ (i = Len(t) \/ ~IsAlnum(t[i + 1]))))

tokenize(text) == FindAlnum(LowerStr(text))

\* re.sub(r"[^a-z0-9\-\s]", "", value)
SlugKeep(s) == SelectSeq(s, LAMBDA c : IsAlnum(c) \/ c = "-" \/ IsSpace(c))

\* the characters of s at the positions keep, each \s as a hyphen
Hyphenate(s, keep) ==
    [n \in 1..Len(keep) |-> IF IsSpace(s[keep[n]]) THEN "-" ELSE s[keep[n]]]

\* re.sub(r"\s+", "-", value): every maximal run of \s becomes one hyphen
SlugHyphen(s) ==
    Hyphenate(s, Positions(s, LAMBDA i :
                     ~IsSpace(s[i]) \/ i = 1 \/ ~IsSpace(s[i - 1])))

\* value or "untitled"
OrUntitled(v) == IF v = <<>> THEN <<"u","n","t","i","t","l","e","d">> ELSE v

slugify(value) == OrUntitled(SlugHyphen(SlugKeep(LowerStr(Strip(value)))))

-----------------------------------------------------------------------------

(* suggest_folder                                                          *)

RECURSIVE Gcd(_, _)
Gcd(a, b) == IF b = 0 THEN a ELSE Gcd(b, a % b)

\* a float >= 0, kept exact as a fraction in lowest terms
Rat(n, d) == [num |-> n \div Gcd(n, d), den |-> d \div Gcd(n, d)]
RatLess(a, b) == a.num * b.den < b.num * a.den
RatEq(a, b) == a.num * b.den = b.num * a.den
\* Python's max(a, b) and min(a, b): the first argument wins a tie
RatMax(a, b) == IF RatLess(a, b) THEN b ELSE a
RatMin(a, b) == IF RatLess(b, a) THEN b ELSE a
RatDiv(a, b) == Rat(a.num * b.den, a.den * b.num)

\* keyword_map, in its insertion order
keyword_map == <<
    [folder |-> <<"W","o","r","k">>,
     keywords |-> {<<"m","e","e","t","i","n","g">>, <<"c","l","i","e","n","t">>, <<"p","r","o","j","e","c","t">>, <<"d","e","a","d","l","i","n","e">>,
                   <<"i","n","v","o","i","c","e">>, <<"d","e","l","i","v","e","r","a","b","l","e">>, <<"f","o","l","l","o","w","u","p">>}],
    [folder |-> <<"P","e","r","s","o","n","a","l">>,
     keywords |-> {<<"f","a","m","i","l","y">>, <<"b","i","r","t","h","d","a","y">>, <<"t","r","a","v","e","l">>, <<"r","e","c","i","p","e">>,
                   <<"m","e","a","l">>, <<"w","e","e","k","e","n","d">>}],
    [folder |-> <<"F","i","n","a","n","c","e">>,
     keywords |-> {<<"b","u","d","g","e","t">>, <<"t","a","x">>, <<"e","x","p","e","n","s","e">>, <<"i","n","v","o","i","c","e">>, <<"p","a","y","m","e","n","t">>}],
    [folder |-> <<"I","d","e","a","s">>,
     keywords |-> {<<"i","d","e","a">>, <<"b","r","a","i","n","s","t","o","r","m">>, <<"c","o","n","c","e","p","t">>, <<"d","r","a","f","t">>}],
    [folder |-> <<"J","o","u","r","n","a","l">>,
     keywords |-> {<<"t","o","d","a","y">>, <<"g","r","a","t","i","t","u","d","e">>, <<"m","o","o","d">>, <<"r","e","f","l","e","c","t","i","o","n">>, <<"d","i","a","r","y">>}]
>>

Uncategorized == <<"U","n","c","a","t","e","g","o","r","i","z","e","d">>

RECURSIVE ScoreTokens(_, _, _)
\* the scoring loop: scores[f] is the score of keyword_map[f] after tokens
\* i.. have been counted into scores
ScoreTokens(tokens, i, scores) ==
    IF i > Len(tokens) THEN scores
    ELSE ScoreTokens(tokens, i + 1,
            [f \in DOMAIN keyword_map |->
                IF tokens[i] \in keyword_map[f].keywords
                THEN scores[f] + 1 ELSE scores[f]])

RECURSIVE MaxItemLast(_, _, _)
\* max over the items where a later item also replaces an equal best
MaxItemLast(scores, i, best) ==
    IF i > Len(scores) THEN best
    ELSE MaxItemLast(scores, i + 1,
                     IF scores[i] >= scores[best] THEN i ELSE best)

RECURSIVE MaxItem(_, _, _)
\* max(scores.items(), key=lambda item: item[1]) from item i on: a later
\* item replaces the best so far only when its score is strictly larger
MaxItem(scores, i, best) ==
    IF i > Len(scores) THEN best
    ELSE MaxItem(scores, i + 1, IF scores[i] > scores[best] THEN i ELSE best)

DigitChars == <<"0","1","2","3","4","5","6","7","8","9">>

RECURSIVE str(_)
\* str(n) for an int n >= 0
str(n) ==
    IF n < 10 THEN <<DigitChars[n + 1]>>
    ELSE str(n \div 10) \o <<DigitChars[(n % 10) + 1]>>

\* SuggestedFolder(name=, confidence=, reason=)
SuggestedFolder(name, confidence, reason) ==
    [name |-> name, confidence |-> confidence, reason |-> reason]

\* note.folder or "Uncategorized"
Fallback(record) ==
    IF record.folder # <<>> THEN record.folder ELSE Uncategorized

\* the confidence without its upper limit of 1.0
ConfidenceUnclamped(best_score, n) ==
    IF best_score # 0
    THEN RatDiv(Rat(best_score, 1), RatMax(Rat(3, 1), Rat(n, 4)))
    ELSE Rat(35, 100)

\* min(1.0, best_score / max(3, len(tokens) / 4)) if best_score else 0.35,
\* for n tokens
Confidence(best_score, n) ==
    IF best_score # 0
    THEN RatMin(Rat(1, 1),
                RatDiv(Rat(best_score, 1), RatMax(Rat(3, 1), Rat(n, 4))))
    ELSE Rat(35, 100)

\* the branch best_score == 0 without its test of known_folders
KeepFolderUntested(fallback, known_folders, confidence) ==
    SuggestedFolder(fallback, confidence,
                    <<"N","o"," ","s","t","r","o","n","g"," ","k","e","y","w","o","r","d"," ","m","a","t","c","h",";"," ","k","e","e","p","i","n","g"," ","o","r","i","g","i","n","a","l"," ","f","o","l","d","e","r">>)

\* the return of the branch best_score == 0
KeepFolder(fallback, known_folders, confidence) ==
    SuggestedFolder(IF fallback \in known_folders THEN fallback
                    ELSE Uncategorized,
                    confidence,
                    <<"N","o"," ","s","t","r","o","n","g"," ","k","e","y","w","o","r","d"," ","m","a","t","c","h",";"," ","k","e","e","p","i","n","g"," ","o","r","i","g","i","n","a","l"," ","f","o","l","d","e","r">>)

\* the reason of a keyword match
Reason(record, known_folders, best_folder, best_score) ==
    <<"M","a","t","c","h","e","d"," ">> \o str(best_score) \o <<" ","k","e","y","w","o","r","d","(","s",")"," ","f","o","r"," ">> \o best_folder
    \o IF best_folder \notin known_folders /\ record.folder # <<>>
       THEN <<";"," ","o","r","i","g","i","n","a","l"," ","f","o","l","d","e","r"," ","w","a","s"," ">> \o record.folder
       ELSE <<>>

\* suggest_folder from the line that computes confidence on
SuggestBest(record, known_folders, best_folder, best_score, confidence) ==
    IF best_score = 0
    THEN KeepFolder(Fallback(record), known_folders, confidence)
    ELSE SuggestedFolder(best_folder, confidence,
                         Reason(record, known_folders, best_folder, best_score))

\* suggest_folder from max(scores.items(), ...) on: best is the position in
\* keyword_map of the item that max returns, n is len(tokens)
SuggestItem(record, known_folders, n, scores, best) ==
    SuggestBest(record, known_folders, keyword_map[best].folder, scores[best],
                Confidence(scores[best], n))

\* suggest_folder from the end of the scoring loop on, n is len(tokens)
SuggestScores(record, known_folders, n, scores) ==
    SuggestItem(record, known_folders, n, scores, MaxItem(scores, 2, 1))

\* suggest_folder from the line that computes tokens on
SuggestTokens(record, known_folders, tokens) ==
    IF tokens = <<>>
    THEN SuggestedFolder(Fallback(record), Rat(2, 10), <<"E","m","p","t","y"," ","n","o","t","e">>)
    ELSE SuggestScores(record, known_folders, Len(tokens),
                       ScoreTokens(tokens, 1, [f \in DOMAIN keyword_map |-> 0]))

\* known_folders is used for membership tests only: it is modelled as a set
suggest_folder(record, known_folders) ==
    SuggestTokens(record, known_folders,
                  tokenize(record.title \o <<" ">> \o strip_html(record.body_html)))

-----------------------------------------------------------------------------

(* Exceptions and results                                                  *)

\* the result of a call: exc is NoExc and value the return value, or exc is
\* the exception raised
NoExc == [type |-> "none", msg |-> <<>>]
Raise(type, msg) == [exc |-> [type |-> type, msg |-> msg], value |-> <<>>]
Return(value) == [exc |-> NoExc, value |-> value]

\* payload.get(key, default) and args.<key> with its argparse default
Get(d, key, default) == IF key \in DOMAIN d THEN d[key] ELSE default

None == <<>>

-----------------------------------------------------------------------------
(* run_applescript, parse_notes, fetch_notes                               *)

NoteRecord(folder, title, created, body_html) ==
    [folder |-> folder, title |-> title, created |-> created,
     body_html |-> body_html]

SAMPLE_NOTES == <<
    NoteRecord(<<"I","n","b","o","x">>, <<"C","l","i","e","n","t"," ","m","e","e","t","i","n","g"," ","f","o","l","l","o","w","-","u","p">>, <<"2","0","2","4","-","1","1","-","0","2">>,
        <<"\n"," "," "," "," "," "," "," "," ","<","p",">","S","e","n","d"," ","p","r","o","j","e","c","t"," ","t","i","m","e","l","i","n","e"," ","a","n","d"," ","u","p","d","a","t","e","d"," ","b","u","d","g","e","t"," ","t","o"," ","c","l","i","e","n","t",".","<","/","p",">","\n"," "," "," "," "," "," "," "," ","<","p",">","S","c","h","e","d","u","l","e"," ","n","e","x","t"," ","m","e","e","t","i","n","g"," ","f","o","r"," ","T","h","u","r","s","d","a","y",".","<","/","p",">","\n"," "," "," "," "," "," "," "," ">>),
    NoteRecord(<<"P","e","r","s","o","n","a","l">>, <<"W","e","e","k","e","n","d"," ","m","e","a","l"," ","p","r","e","p"," ","i","d","e","a","s">>, <<"2","0","2","4","-","1","1","-","0","1">>,
        <<"\n"," "," "," "," "," "," "," "," ","<","u","l",">","<","l","i",">","C","h","i","c","k","e","n"," ","b","o","w","l","s","<","/","l","i",">","<","l","i",">","V","e","g","e","t","a","r","i","a","n"," ","c","h","i","l","i","<","/","l","i",">","<","/","u","l",">","\n"," "," "," "," "," "," "," "," ">>),
    NoteRecord(<<"I","d","e","a","s">>, <<"N","e","w"," ","p","r","o","d","u","c","t"," ","b","r","a","i","n","s","t","o","r","m">>, <<"2","0","2","4","-","1","0","-","2","9">>,
        <<"\n"," "," "," "," "," "," "," "," ","<","p",">","F","o","c","u","s"," ","o","n"," ","o","n","b","o","a","r","d","i","n","g"," ","U","X"," ","a","n","d"," ","r","e","a","l","-","t","i","m","e"," ","i","n","s","i","g","h","t","s",".","<","/","p",">","\n"," "," "," "," "," "," "," "," ">>)
>>

\* the outcome of subprocess.run(["osascript", ...]) is the input src:
\* found is FALSE when the osascript command does not exist
run_applescript(src) ==
    IF ~src.found THEN Raise("FileNotFoundError", <<"o","s","a","s","c","r","i","p","t">>)
    ELSE IF src.returncode # 0
    THEN Raise("NotesExportError",
               IF Strip(src.stderr) # <<>> THEN Strip(src.stderr)
               ELSE <<"A","p","p","l","e","S","c","r","i","p","t"," ","f","a","i","l","e","d">>)
    ELSE IF IsPrefixAt(src.stdout, 1, <<"E","R","R","O","R",":">>)
    THEN Raise("NotesExportError", Strip(src.stdout))
    ELSE Return(src.stdout)

\* the pieces of s between the consecutive positions of cuts
Pieces(s, cuts) ==
    [n \in 1..(Len(cuts) - 1) |-> SubSeq(s, cuts[n] + 1, cuts[n + 1] - 1)]

\* s.split(sep) for a one-character sep
Split(s, sep) ==
    Pieces(s, <<0>> \o Positions(s, LAMBDA i : s[i] = sep) \o <<Len(s) + 1>>)

\* NoteRecord(folder=fields[0].strip(), ...)
ParseFields(fields) ==
    NoteRecord(Strip(fields[1]), Strip(fields[2]), Strip(fields[3]),
               Strip(fields[4]))

\* the records that pass "if not record.strip(): continue" and
\* "if len(fields) < 4: continue"
KeptRecords(records) ==
    SelectSeq(records, LAMBDA record :
        Strip(record) # <<>> /\ Len(Split(record, FIELD_SEPARATOR)) >= 4)

\* the loop of parse_notes over the records it keeps
ParseRecords(kept) ==
    [n \in 1..Len(kept) |-> ParseFields(Split(kept[n], FIELD_SEPARATOR))]

parse_notes(raw) == ParseRecords(KeptRecords(Split(raw, RECORD_SEPARATOR)))

\* fetch_notes without its test "if not notes"
FetchResultUntested(raw, notes) ==
    IF raw.exc.type \in {"FileNotFoundError", "NotesExportError"}
    THEN SAMPLE_NOTES
    ELSE notes

\* fetch_notes once run_applescript has returned raw and, if it raised
\* nothing, parse_notes has returned notes
FetchResult(raw, notes) ==
    IF raw.exc.type \in {"FileNotFoundError", "NotesExportError"}
    THEN SAMPLE_NOTES
    ELSE IF notes = <<>>
    THEN SAMPLE_NOTES    \* "No notes found" is raised and caught
    ELSE notes

\* fetch_notes once run_applescript has returned raw
FetchRaw(raw) == FetchResult(raw, parse_notes(raw.value))

fetch_notes(src) == FetchRaw(run_applescript(src))

-----------------------------------------------------------------------------
(* format_note                                                             *)

\* the character reference html.escape writes for c
EscapeRef(c) ==
    CASE c = "&" -> <<"&","a","m","p",";">>
      [] c = "<" -> <<"&","l","t",";">>
      [] c = ">" -> <<"&","g","t",";">>
      [] c = "\"" -> <<"&","q","u","o","t",";">>
      [] c = "'" -> <<"&","#","x","2","7",";">>

RECURSIVE Escape(_, _)
RECURSIVE EscapeAt(_, _, _)
\* html.escape(s, quote=True), from position i on
Escape(s, i) ==
    EscapeAt(s, i, MinOr0({k \in i..Len(s) :
                              s[k] \in {"&", "<", ">", "\"", "'"}}))

\* k is the first position at or after i to escape, 0 when there is none
EscapeAt(s, i, k) ==
    IF k = 0 THEN SubSeq(s, i, Len(s))
    ELSE SubSeq(s, i, k - 1) \o EscapeRef(s[k]) \o Escape(s, k + 1)

format_note(record, output_format) ==
    IF output_format = <<"h","t","m","l">>
    THEN <<"<","h","1",">">> \o Escape(record.title, 1) \o <<"<","/","h","1",">","\n">>
         \o <<"<","p",">","<","s","t","r","o","n","g",">","F","o","l","d","e","r",":","<","/","s","t","r","o","n","g",">"," ">> \o Escape(record.folder, 1)
         \o <<"<","b","r","/",">">>
         \o <<"<","s","t","r","o","n","g",">","C","r","e","a","t","e","d",":","<","/","s","t","r","o","n","g",">"," ">> \o Escape(record.created, 1)
         \o <<"<","/","p",">","\n">>
         \o record.body_html \o <<"\n">>
    ELSE IF output_format = <<"t","e","x","t">>
    THEN record.title \o <<"\n">> \o record.folder \o <<"\n">> \o record.created
         \o <<"\n","\n">> \o strip_html(record.body_html) \o <<"\n">>
    ELSE <<"#"," ">> \o record.title \o <<"\n","\n">>
         \o <<"F","o","l","d","e","r",":"," ">> \o record.folder \o <<"\n","C","r","e","a","t","e","d",":"," ">> \o record.created
         \o <<"\n","\n">>
         \o strip_html(record.body_html) \o <<"\n">>

-----------------------------------------------------------------------------
(* Bounds and inputs                                                       *)

MaxNow == 1         \* the clock runs from 0 to MaxNow
MaxRuns == 2        \* export_notes calls in a behaviour of Spec
MaxCliRuns == 1     \* export_notes calls in a behaviour of SpecReaders
MaxFaultRuns == 1   \* export_notes calls in a behaviour of SpecFaults
MaxPieces == 3      \* pieces in a text given to strip_html
MaxTitleWords == 2  \* words in the title of a note given to suggest_folder
MaxPad == 12        \* filler words in the body of such a note

\* one record as the AppleScript writes it
RawRecord(folder, title, created, body) ==
    folder \o <<FIELD_SEPARATOR>> \o title \o <<FIELD_SEPARATOR>> \o created
    \o <<FIELD_SEPARATOR>> \o body \o <<RECORD_SEPARATOR>>

\* two notes whose titles differ and have the same slug
RawTwo == RawRecord(<<"W","o","r","k">>, <<"H","e","l","l","o">>, <<"M","o","n","d","a","y">>, <<"<","p",">","H","i","<","/","p",">">>)
          \o RawRecord(<<"W","o","r","k">>, <<"H","e","l","l","o","!">>, <<"F","r","i","d","a","y">>, <<"<","b",">","Y","o","<","/","b",">">>)
\* two notes of the same folder and title
RawSame == RawRecord(<<"W","o","r","k">>, <<"H","e","l","l","o">>, <<"M","o","n","d","a","y">>, <<"<","p",">","H","i","<","/","p",">">>)
           \o RawRecord(<<"W","o","r","k">>, <<"H","e","l","l","o">>, <<"F","r","i","d","a","y">>, <<"<","p",">","A","g","a","i","n","<","/","p",">">>)
\* a record of three fields and a blank record
RawBad == <<"a">> \o <<FIELD_SEPARATOR>> \o <<"b">> \o <<FIELD_SEPARATOR>> \o <<"c">>
          \o <<RECORD_SEPARATOR, " ", RECORD_SEPARATOR>>
\* the script's own error report
RawError == <<"E","R","R","O","R",":","-","1","7","4","3",":","N","o","t"," ","a","u","t","h","o","r","i","z","e","d">>

Source(found, returncode, stdout, stderr) ==
    [found |-> found, returncode |-> returncode, stdout |-> stdout,
     stderr |-> stderr]

SourceOutcomes ==
    {Source(FALSE, 0, <<>>, <<>>), Source(TRUE, 1, <<>>, <<"e","x","e","c","u","t","i","o","n"," ","e","r","r","o","r","\n">>)}
    \cup {Source(TRUE, 0, out, <<>>) : out \in {RawTwo, RawSame, RawBad, RawError}}

\* the JSON payloads of POST /api/export: every key is optional
Payloads ==
    LET moved == [title \in {<<"H","e","l","l","o">>} |-> <<"I","d","e","a","s">>]
    IN {<<>>,
        [k \in {"format"} |-> <<"h","t","m","l">>],
        [k \in {"overrides"} |-> moved],
        [k \in {"format", "overrides"} |->
            IF k = "format" THEN <<"h","t","m","l">> ELSE moved]}

\* the parsed command lines: --format is one of argparse's three choices
CliArgs ==
    [output : {<<"n","o","t","e","s","-","e","x","p","o","r","t">>},
     format : {<<"m","a","r","k","d","o","w","n">>, <<"t","e","x","t">>, <<"h","t","m","l">>},
     dry_run : BOOLEAN]

-----------------------------------------------------------------------------
(* export_notes                                                            *)

\* dt.datetime.now().strftime("%Y%m%d-%H%M%S"): the clock t counts the
\* seconds of one minute of local time, 2024-11-02 09:00
strftime(t) ==
    <<"2","0","2","4","1","1","0","2","-","0","9","0","0">> \o <<DigitChars[(t \div 10) + 1], DigitChars[(t % 10) + 1]>>

\* Path(p).expanduser().resolve() for a relative p, in working directory /srv
Resolve(p) == <<"/","s","r","v","/">> \o p

\* the path a / b
Join(a, b) == a \o <<"/">> \o b

\* the directories Path.mkdir(parents=True, exist_ok=True) leaves in
\* existence: p and every parent of p
Mkdir(p, existing) ==
    existing \cup {p} \cup {SubSeq(p, 1, k - 1) : k \in {k \in 2..Len(p) : p[k] = "/"}}

\* a file system failure met by one export_notes call: at is 0 for
\* output_dir.mkdir and n for the n-th note, where kind tells the operation
\* that fails: "mkdir" is folder_dir.mkdir, "open" is write_text failing to
\* open the file, "write" is write_text failing after it opened (and so
\* truncated) the file
NoFault == [at |-> -1, kind |-> "none"]

OSError(path) == [type |-> "OSError", msg |-> path]

\* folder_overrides.get(record.title, record.folder) if folder_overrides
\* else record.folder
FolderName(record, folder_overrides) ==
    IF DOMAIN folder_overrides # {} /\ record.title \in DOMAIN folder_overrides
    THEN folder_overrides[record.title]
    ELSE record.folder

\* folder_name or "Uncategorized"
OrUncategorized(folder_name) ==
    IF folder_name # <<>> THEN folder_name ELSE Uncategorized

\* folder_dir of one record
FolderDir(record, output_dir, folder_overrides) ==
    Join(output_dir,
         slugify(OrUncategorized(FolderName(record, folder_overrides))))

\* filename of one record
Filename(record, output_format, timestamp) ==
    slugify(record.title) \o <<"-">> \o timestamp \o <<".">> \o output_format

\* output_path of one record
OutputPath(record, output_dir, output_format, folder_overrides, timestamp) ==
    Join(FolderDir(record, output_dir, folder_overrides),
         Filename(record, output_format, timestamp))

\* the files after output_path.write_text(data): the file is created or
\* replaced
WriteText(existing, output_path, data) == (output_path :> data) @@ existing

RECURSIVE ExportLoop(_, _, _, _, _, _, _, _)
RECURSIVE ExportRecord(_, _, _, _, _, _, _, _, _, _)
RECURSIVE ExportWrite(_, _, _, _, _, _, _, _, _)
\* the loop of export_notes from the n-th record on; st holds the file
\* system (files, dirs), created_paths and the exception raised, if any
ExportLoop(notes, n, output_dir, output_format, folder_overrides, timestamp, fault, st) ==
    IF n > Len(notes) THEN st
    ELSE ExportRecord(notes, n, output_dir, output_format, folder_overrides,
                      timestamp, fault, st,
                      FolderDir(notes[n], output_dir, folder_overrides),
                      OutputPath(notes[n], output_dir, output_format,
                                 folder_overrides, timestamp))

\* the body of the loop for the n-th record, from folder_dir.mkdir on
ExportRecord(notes, n, output_dir, output_format, folder_overrides, timestamp, fault, st, folder_dir, output_path) ==
    IF fault.at = n /\ fault.kind = "mkdir"
    THEN [st EXCEPT !.exc = OSError(folder_dir)]
    ELSE ExportWrite(notes, n, output_dir, output_format, folder_overrides,
                     timestamp, fault,
                     [st EXCEPT !.dirs = Mkdir(folder_dir, @)], output_path)

\* a write that, when it fails, removes the files the call has written
ExportWriteRollback(notes, n, output_dir, output_format, folder_overrides, timestamp, fault, st, output_path) ==
    IF fault.at = n /\ fault.kind \in {"open", "write"}
    THEN [st EXCEPT !.exc = OSError(output_path),
                    !.files = [p \in DOMAIN @ \ Range(st.created_paths) |-> @[p]]]
    ELSE ExportLoop(notes, n + 1, output_dir, output_format, folder_overrides,
                    timestamp, fault,
                    [st EXCEPT !.files = WriteText(@, output_path,
                                   format_note(notes[n], output_format)),
                               !.created_paths = Append(@, output_path)])

\* the body of the loop for the n-th record, from output_path.write_text on
ExportWrite(notes, n, output_dir, output_format, folder_overrides, timestamp, fault, st, output_path) ==
    IF fault.at = n /\ fault.kind = "open"
    THEN [st EXCEPT !.exc = OSError(output_path)]
    ELSE IF fault.at = n /\ fault.kind = "write"
    THEN [st EXCEPT !.exc = OSError(output_path),
                    !.files = WriteText(@, output_path, <<>>)]
    ELSE ExportLoop(notes, n + 1, output_dir, output_format, folder_overrides,
                    timestamp, fault,
                    [st EXCEPT !.files = WriteText(@, output_path,
                                   format_note(notes[n], output_format)),
                               !.created_paths = Append(@, output_path)])

\* export_notes on the file system fs = [files, dirs] at clock time t: the
\* result holds the file system it leaves, the exception it raises if any,
\* and created_paths (its return value when exc is NoExc)
export_notes(notes, output_dir, output_format, folder_overrides, fault, fs, t) ==
    IF fault.at = 0
    THEN [files |-> fs.files, dirs |-> fs.dirs, created_paths |-> <<>>,
          exc |-> OSError(output_dir)]
    ELSE ExportLoop(notes, 1, output_dir, output_format, folder_overrides,
                    strftime(t), fault,
                    [files |-> fs.files, dirs |-> Mkdir(output_dir, fs.dirs),
                     created_paths |-> <<>>, exc |-> NoExc])

\* the file system failures an export of notes can meet
Faults(notes) ==
    {[at |-> 0, kind |-> "mkdir"]}
    \cup [at : 1..Len(notes), kind : {"mkdir", "open", "write"}]

-----------------------------------------------------------------------------

(* assess_suggestions                                                      *)

\* the characters folder names are written with, in increasing code-point
\* order
CodeOrder ==
    <<"\t", "\n", "\f", "\r", RECORD_SEPARATOR, FIELD_SEPARATOR, " ", "!", "&",
      "-", ".", "/">>
    \o DigitChars \o <<":", ";", "<", ">">> \o UpperCase \o <<"_">> \o LowerCase

Ord(c) == CHOOSE i \in DOMAIN CodeOrder : CodeOrder[i] = c

\* a < b for two str
StrLess(a, b) ==
    \E i \in 1..(Len(b)) :
        /\ i <= Len(a) + 1
        /\ SubSeq(a, 1, i - 1) = SubSeq(b, 1, i - 1)
        /\ (i = Len(a) + 1 \/ Ord(a[i]) < Ord(b[i]))

\* sorted(S) for a set S of str
Sorted(S) ==
    [n \in 1..Cardinality(S) |->
        CHOOSE s \in S : Cardinality({u \in S : StrLess(u, s)}) = n - 1]

\* sorted({note.folder for note in notes if note.folder})
KnownFolders(notes) ==
    Sorted({notes[i].folder : i \in {i \in DOMAIN notes : notes[i].folder # <<>>}})

RatAdd(a, b) == Rat(a.num * b.den + b.num * a.den, a.den * b.den)

RECURSIVE RatSum(_)
\* sum(confidences)
RatSum(rs) ==
    IF rs = <<>> THEN Rat(0, 1) ELSE RatAdd(Head(rs), RatSum(Tail(rs)))

\* q hundredths and a remainder of rem / den of a hundredth, rounded to a
\* whole number of hundredths, a tie going to the even one
RoundHalfEven(q, rem, den) ==
    IF 2 * rem > den \/ (2 * rem = den /\ q % 2 = 1)
    THEN Rat(q + 1, 100) ELSE Rat(q, 100)

\* round(r, 2) for r >= 0
Round2(r) ==
    RoundHalfEven((100 * r.num) \div r.den, (100 * r.num) % r.den, r.den)

\* the confidences of the suggestions hits, in order
Confidences(hits) == [k \in DOMAIN hits |-> hits[k].confidence]

\* counts[name]: the confidences of the notes suggested name, in order
Counts(suggestions, name) ==
    Confidences(SelectSeq(suggestions, LAMBDA s : s.name = name))

\* one bucket of the summary
Bucket(name, confidences) ==
    [folder |-> name,
     count |-> Len(confidences),
     avg_confidence |->
         Round2(RatDiv(RatSum(confidences), Rat(Len(confidences), 1)))]

\* the buckets, for the sorted names of counts
Buckets(suggestions, names) ==
    [k \in DOMAIN names |-> Bucket(names[k], Counts(suggestions, names[k]))]

\* the summary assess_suggestions builds from the notes' suggestions
Summary(total, suggestions) ==
    [total |-> total,
     buckets |-> Buckets(suggestions,
                         Sorted({suggestions[i].name : i \in DOMAIN suggestions}))]

\* suggest_folder for every note of notes
SuggestAll(notes, known_folders) ==
    [i \in DOMAIN notes |-> suggest_folder(notes[i], known_folders)]

assess_suggestions(notes) ==
    Summary(Len(notes), SuggestAll(notes, Range(KnownFolders(notes))))

-----------------------------------------------------------------------------

(* The handlers of app.py and the command of notes_organizer.py            *)

\* what one handler or command run leaves behind:
\*   op        the handler or command
\*   src       the outcome of the osascript call it made
\*   args      its JSON payload or command-line arguments
\*   fault     the file system failure it met, or NoFault
\*   at        the clock when it ran
\*   before    the files that existed when it started
\*   exported  whether it reached export_notes
\*   written   created_paths of its export_notes call, up to where it got
\*   exc       the exception that ended it, or NoExc
\*   response  the JSON it answered or the text it printed
Outcome(op, src, args, fault, exported, written, exc, response) ==
    [op |-> op, src |-> src, args |-> args, fault |-> fault, at |-> now,
     before |-> files, exported |-> exported, written |-> written,
     exc |-> exc, response |-> response]

\* one entry of the payload api_notes builds
Entry(n, s) ==
    [title |-> n.title, folder |-> n.folder, created |-> n.created,
     body_html |-> n.body_html, suggested_folder |-> s.name,
     confidence |-> s.confidence, reason |-> s.reason]

\* the response body of api_notes for the notes fetched
Listing(notes, known_folders) ==
    [notes |-> [i \in DOMAIN notes |->
                   Entry(notes[i],
                         suggest_folder(notes[i], Range(known_folders)))],
     folders |-> known_folders]

\* api_notes once fetch_notes has returned notes
ListingFor(notes) == Listing(notes, KnownFolders(notes))

\* the response body of api_notes
api_notes(src) == ListingFor(fetch_notes(src))

\* the response body of api_assess
api_assess(src) == assess_suggestions(fetch_notes(src))

\* a main that falls back on the sample notes as fetch_notes does
MainReadFallback(raw, notes) ==
    IF raw.exc # NoExc \/ notes = <<>> THEN Return(SAMPLE_NOTES)
    ELSE Return(notes)

\* what main reads before it decides to export: the notes, or the exception
\* that ends the run
MainRead(raw, notes) ==
    IF raw.exc.type = "NotesExportError"
    THEN Raise("NotesExportError", <<"U","n","a","b","l","e"," ","t","o"," ","r","e","a","d"," ","N","o","t","e","s",":"," ">> \o raw.exc.msg)
    ELSE IF raw.exc # NoExc
    THEN raw    \* FileNotFoundError is not caught
    ELSE IF notes = <<>>
    THEN Raise("NotesExportError",
               <<"N","o"," ","n","o","t","e","s"," ","f","o","u","n","d","."," ","E","n","s","u","r","e"," ","N","o","t","e","s"," ","a","c","c","e","s","s"," ","i","s"," ","p","e","r","m","i","t","t","e","d",".">>)
    ELSE Return(notes)

\* main once run_applescript has returned raw
MainRaw(raw) == MainRead(raw, parse_notes(raw.value))

MainNotes(src) == MainRaw(run_applescript(src))

-----------------------------------------------------------------------------
(* The readers are pure and the program meets few outcomes of the osascript *)
(* call: what they return is computed once per outcome and looked up by     *)
(* the actions.                                                             *)

FetchedOf == [src \in SourceOutcomes |-> fetch_notes(src)]
ReadOf == [src \in SourceOutcomes |-> MainNotes(src)]
ListingOf == [src \in SourceOutcomes |-> api_notes(src)]
AssessmentOf == [src \in SourceOutcomes |-> api_assess(src)]

-----------------------------------------------------------------------------
(* The program: Init and the actions                                       *)

DoneText(text) == [done |-> TRUE, text |-> text]
PendingText == [done |-> FALSE, text |-> <<>>]
DoneSuggestion(s) == [done |-> TRUE, value |-> s]
PendingSuggestion ==
    [done |-> FALSE, value |-> SuggestedFolder(<<>>, Rat(0, 1), <<>>)]

Idle ==
    [op |-> "none", src |-> None, args |-> None, fault |-> NoFault, at |-> 0,
     before |-> <<>>, exported |-> FALSE, written |-> <<>>, exc |-> NoExc,
     response |-> None]

\* the variables of the two function studies, at rest
NoStudy ==
    /\ x = <<>> /\ once = PendingText /\ twice = PendingText
    /\ note = NoteRecord(<<>>, <<>>, <<>>, <<>>) /\ known = {}
    /\ suggestion = PendingSuggestion

\* the variables of the program, at rest
NoProgram ==
    /\ now = 0 /\ files = <<>> /\ dirs = {} /\ calls = 0 /\ last = Idle

studyVars == <<x, once, twice, note, known, suggestion>>
programVars == <<now, files, dirs, calls, last>>

\* the server has just started and nothing has been exported yet
Init == NoStudy /\ NoProgram

\* a second passes
Tick ==
    /\ now < MaxNow
    /\ now' = now + 1
    /\ UNCHANGED <<files, dirs, calls, last, studyVars>>

\* GET /api/notes
ApiNotes ==
    \E src \in SourceOutcomes :
        /\ last' = Outcome("api_notes", src, None, NoFault, FALSE, <<>>, NoExc,
                           ListingOf[src])
        /\ UNCHANGED <<now, files, dirs, calls, studyVars>>

\* GET /api/assess
ApiAssess ==
    \E src \in SourceOutcomes :
        /\ last' = Outcome("api_assess", src, None, NoFault, FALSE, <<>>, NoExc,
                           AssessmentOf[src])
        /\ UNCHANGED <<now, files, dirs, calls, studyVars>>

\* what the caller op answers or prints after export_notes returned created
Answer(op, output_dir, created) ==
    IF op = "main"
    THEN <<"E","x","p","o","r","t","e","d"," ">> \o str(Len(created)) \o <<" ","n","o","t","e","s"," ","t","o"," ">> \o output_dir
         \o <<"\n">>
    ELSE [count |-> Len(created), output_dir |-> output_dir]

\* the state after the export_notes call of op has ended as r
ExportDone(op, src, args, output_dir, fault, r) ==
    /\ files' = r.files
    /\ dirs' = r.dirs
    /\ calls' = calls + 1
    /\ last' = Outcome(op, src, args, fault, TRUE, r.created_paths, r.exc,
                       IF r.exc # NoExc THEN None
                       ELSE Answer(op, output_dir, r.created_paths))
    /\ UNCHANGED <<now, studyVars>>

\* one export_notes call made by op, and what the caller answers or prints
\* after it
ExportStep(op, src, args, notes, output_dir, output_format, overrides, fault) ==
    ExportDone(op, src, args, output_dir, fault,
               export_notes(notes, output_dir, output_format, overrides, fault,
                            [files |-> files, dirs |-> dirs], now))

\* the file system failures one export_notes call may meet
FaultChoices(faulty, notes) ==
    {NoFault} \cup (IF faulty THEN Faults(notes) ELSE {})

\* api_export once fetch_notes has returned notes
ApiExportNotes(src, payload, notes, faulty) ==
    \E fault \in FaultChoices(faulty, notes) :
        ExportStep("api_export", src, payload, notes,
                   Resolve(Get(payload, "output_dir", <<"n","o","t","e","s","-","e","x","p","o","r","t">>)),
                   Get(payload, "format", <<"m","a","r","k","d","o","w","n">>),
                   Get(payload, "overrides", <<>>), fault)

\* POST /api/export with the note source in one of the states sources, where
\* the file system may fail as faulty allows
api_export(sources, faulty, bound) ==
    /\ calls < bound
    /\ \E src \in sources, payload \in Payloads :
           ApiExportNotes(src, payload, FetchedOf[src], faulty)

\* what main prints with --dry-run
DryRun(notes, output_format) ==
    <<"F","o","u","n","d"," ">> \o str(Len(notes)) \o <<" ","n","o","t","e","s","."," ","S","a","m","p","l","e"," ","o","u","t","p","u","t",":","\n","\n">>
    \o format_note(notes[1], output_format) \o <<"\n">>

\* main once the notes are read: got holds them, or the exception raised
MainGot(src, got, bound) ==
    IF got.exc # NoExc
    THEN /\ last' = Outcome("main", src, None, NoFault, FALSE, <<>>, got.exc,
                            None)
         /\ UNCHANGED <<now, files, dirs, calls, studyVars>>
    ELSE \E args \in CliArgs :
             IF args.dry_run
             THEN /\ last' = Outcome("main", src, args, NoFault, FALSE, <<>>,
                                     NoExc, DryRun(got.value, args.format))
                  /\ UNCHANGED <<now, files, dirs, calls, studyVars>>
             ELSE /\ calls < bound
                  /\ ExportStep("main", src, args, got.value,
                                Resolve(args.output), args.format, <<>>,
                                NoFault)

\* python notes_organizer.py; the arguments are recorded once the run uses
\* them
main(bound) ==
    \E src \in SourceOutcomes : MainGot(src, ReadOf[src], bound)

ApiExport == api_export(SourceOutcomes, FALSE, MaxRuns)
Main == main(MaxRuns)

Next == Tick \/ ApiNotes \/ ApiAssess \/ ApiExport \/ Main

\* the whole program on a file system that does not fail
Spec == Init /\ [][Next]_vars

MainCli == main(MaxCliRuns)

NextReaders == Tick \/ ApiNotes \/ ApiAssess \/ MainCli

\* the handlers and the command that read the notes without a payload
SpecReaders == Init /\ [][NextReaders]_vars

\* fetch_notes answers the sample notes for every source that fails: the
\* missing command stands for them, next to the two sources that have notes
FaultSources ==
    {src \in SourceOutcomes : ~src.found \/ FetchedOf[src] # SAMPLE_NOTES}

ApiExportFaulty == api_export(FaultSources, TRUE, MaxFaultRuns)

NextFaults == Tick \/ ApiExportFaulty

\* POST /api/export on a file system that may fail during an export
SpecFaults == Init /\ [][NextFaults]_vars

-----------------------------------------------------------------------------
(* strip_html on its own: every text of up to MaxPieces pieces             *)

\* plain characters, white space, character references whole and in parts,
\* and tags
TextPieces ==
    {<<"a">>, <<" ">>, <<"\n">>, <<"&">>, <<"&","a","m","p",";">>, <<"&","l","t",";">>, <<"&","g","t",";">>, <<"l","t",";">>,
     <<"<">>, <<">">>, <<"<","b",">">>, <<"<","b","r","/",">">>, <<"<","/","p",">">>}

Texts ==
    {Concat(ps) : ps \in UNION {[1..n -> TextPieces] : n \in 0..MaxPieces}}

InitStrip ==
    /\ x \in Texts /\ once = PendingText /\ twice = PendingText
    /\ note = NoteRecord(<<>>, <<>>, <<>>, <<>>) /\ known = {}
    /\ suggestion = PendingSuggestion
    /\ NoProgram

\* once = strip_html(x)
StripOnce ==
    /\ ~once.done
    /\ once' = DoneText(strip_html(x))
    /\ UNCHANGED <<x, twice, note, known, suggestion, programVars>>

\* twice = strip_html(once)
StripTwice ==
    /\ once.done /\ ~twice.done
    /\ twice' = DoneText(strip_html(once.text))
    /\ UNCHANGED <<x, once, note, known, suggestion, programVars>>

NextStrip == StripOnce \/ StripTwice

SpecStrip == InitStrip /\ [][NextStrip]_vars

-----------------------------------------------------------------------------
(* suggest_folder on its own                                               *)

\* the words of the titles: a keyword of Work and of Finance, one of
\* Personal, one of Finance alone, and a word of no folder
TitleWords == {<<"I","n","v","o","i","c","e">>, <<"m","e","a","l">>, <<"b","u","d","g","e","t">>, <<"z","z","z">>}

\* the words ws as one title
RECURSIVE JoinWords(_)
JoinWords(ws) ==
    IF ws = <<>> THEN <<>>
    ELSE IF Len(ws) = 1 THEN ws[1]
    ELSE ws[1] \o <<" ">> \o JoinWords(Tail(ws))

Titles ==
    {JoinWords(ws) : ws \in UNION {[1..n -> TitleWords] : n \in 0..MaxTitleWords}}

\* n filler words
RECURSIVE Pad(_)
Pad(n) == IF n = 0 THEN <<>> ELSE <<" ","x">> \o Pad(n - 1)

\* no body, a body of four keywords of Work (one of them of Finance too), and
\* a body of two keywords of Ideas in markup
BodyHeads ==
    {<<>>, <<"<","p",">","i","n","v","o","i","c","e"," ","i","n","v","o","i","c","e"," ","m","e","e","t","i","n","g"," ","c","l","i","e","n","t","<","/","p",">">>,
     <<"<","b",">","i","d","e","a","<","/","b",">","&","a","m","p",";","d","r","a","f","t","<","b","r","/",">">>}

Bodies == {head \o Pad(n) : head \in BodyHeads, n \in 0..MaxPad}

StudyFolders == {<<>>, <<"I","n","b","o","x">>, <<"W","o","r","k">>}

StudyKnown ==
    {{}, {<<"I","n","b","o","x">>}, {<<"W","o","r","k">>, <<"F","i","n","a","n","c","e">>}, {<<"U","n","c","a","t","e","g","o","r","i","z","e","d">>, <<"I","d","e","a","s">>}}

InitSuggest ==
    /\ note \in {NoteRecord(f, t, <<"2","0","2","4","-","1","1","-","0","2">>, b) :
                    f \in StudyFolders, t \in Titles, b \in Bodies}
    /\ known \in StudyKnown
    /\ suggestion = PendingSuggestion
    /\ x = <<>> /\ once = PendingText /\ twice = PendingText
    /\ NoProgram

\* suggestion = suggest_folder(note, known)
Suggest ==
    /\ ~suggestion.done
    /\ suggestion' = DoneSuggestion(suggest_folder(note, known))
    /\ UNCHANGED <<x, once, twice, note, known, programVars>>

NextSuggest == Suggest

SpecSuggest == InitSuggest /\ [][NextSuggest]_vars

-----------------------------------------------------------------------------
(* suggest_folder: what the suggestion of the note under study must be     *)

\* the tokens of the note under study
NoteTokens == tokenize(note.title \o <<" ">> \o strip_html(note.body_html))

\* the number of tokens that are keywords of the f-th folder of the table,
\* counted with repetition
Hits(tokens, f) ==
    Cardinality({i \in DOMAIN tokens : tokens[i] \in keyword_map[f].keywords})

\* the hits of the folders of the table, in its order
HitCounts(tokens) ==
    <<Hits(tokens, 1), Hits(tokens, 2), Hits(tokens, 3), Hits(tokens, 4),
      Hits(tokens, 5)>>

\* the largest number of hits of a folder
BestHits == Max(Range(HitCounts(NoteTokens)))

\* the first position of the number b in counts
FirstAt(counts, b) == Min({f \in DOMAIN counts : counts[f] = b})

\* the first folder of the table, in its order, with the largest number
FirstBest == FirstAt(HitCounts(NoteTokens), BestHits)

\* the number of folders with the largest number of hits
NumBest(counts, b) == Cardinality({f \in DOMAIN counts : counts[f] = b})

\* C1: the confidence suggest_folder returns lies in [0, 1]; it is 0.2 when
\* the note has no token, 0.35 when no token is a keyword, and otherwise
\* min(1, bestScore / max(3, tokenCount / 4)).  In whole numbers: with n
\* tokens and b hits, max(3, n/4) is n/4 exactly when n > 12, and then
\* b / (n/4) >= 1 exactly when 4b >= n.
ConfidenceInUnitInterval ==
    suggestion.done =>
        LET c == suggestion.value.confidence
            n == Len(NoteTokens)
            b == BestHits
        IN /\ c.den > 0 /\ 0 <= c.num /\ c.num <= c.den
           /\ IF n = 0 THEN 5 * c.num = c.den
              ELSE IF b = 0 THEN 20 * c.num = 7 * c.den
              ELSE IF n > 12
              THEN IF 4 * b >= n THEN c.num = c.den
                   ELSE n * c.num = 4 * b * c.den
              ELSE IF b >= 3 THEN c.num = c.den
                   ELSE 3 * c.num = b * c.den

\* a note of more than 12 tokens whose ratio exceeds 1 and is clamped
ConfidenceClamped ==
    /\ suggestion.done
    /\ Len(NoteTokens) > 12
    /\ 4 * BestHits > Len(NoteTokens)
    /\ suggestion.value.confidence = Rat(1, 1)

\* C9: with at least one token and no keyword among the tokens,
\* suggest_folder returns confidence 0.35 and the reason "No strong keyword
\* match; keeping original folder"; the name is the note's folder when that
\* is non-empty and in known_folders, and "Uncategorized" otherwise.
NoKeywordKeepsKnownFolder ==
    (suggestion.done /\ NoteTokens # <<>> /\ BestHits = 0) =>
        /\ 20 * suggestion.value.confidence.num
           = 7 * suggestion.value.confidence.den
        /\ suggestion.value.reason
           = <<"N","o"," ","s","t","r","o","n","g"," ","k","e","y","w","o","r","d"," ","m","a","t","c","h",";"," ","k","e","e","p","i","n","g"," ","o","r","i","g","i","n","a","l"," ","f","o","l","d","e","r">>
        /\ suggestion.value.name
           = IF note.folder # <<>> /\ note.folder \in known
             THEN note.folder ELSE <<"U","n","c","a","t","e","g","o","r","i","z","e","d">>

\* a note without keywords whose folder is not a known folder
NoKeywordUnknownFolder ==
    /\ suggestion.done /\ NoteTokens # <<>> /\ BestHits = 0
    /\ note.folder # <<>> /\ note.folder \notin known
    /\ suggestion.value.name = <<"U","n","c","a","t","e","g","o","r","i","z","e","d">>

\* C10: with at least one keyword among the tokens, suggest_folder suggests
\* the folder with the most hits, counted with repetition, and among several
\* with the most hits the first in the order Work, Personal, Finance, Ideas,
\* Journal; the hits are counts, so neither known_folders nor the order of
\* the tokens has a part in the folder suggested.
MostHitsFirstInTable ==
    (suggestion.done /\ BestHits > 0) =>
        /\ suggestion.value.name = keyword_map[FirstBest].folder
        /\ suggestion.value.name
           = <<<<"W","o","r","k">>, <<"P","e","r","s","o","n","a","l">>, <<"F","i","n","a","n","c","e">>, <<"I","d","e","a","s">>,
               <<"J","o","u","r","n","a","l">>>>[FirstBest]

\* several folders share the most hits, and the one suggested is not known
TieGoesToFirst ==
    /\ suggestion.done /\ BestHits > 0
    /\ NumBest(HitCounts(NoteTokens), BestHits) > 1
    /\ suggestion.value.name \notin known
    /\ note.folder # <<>>

-----------------------------------------------------------------------------
(* strip_html: idempotence                                                 *)

\* the text s holds no markup tag: no match of <[^>]+>
NoTags(s) == \A k \in 1..Len(s) : TagEnd(s, k) = 0

\* the text s holds no character reference that html.unescape replaces
NoEscapes(s) == unescape(s) = s

\* C7 as stated: for every x without markup tags, character-entity escapes
\* or not, strip_html(strip_html(x)) = strip_html(x).
IdempotentWithoutTags ==
    (twice.done /\ NoTags(x)) => twice.text = once.text

\* C7: for every x without markup tags and without character-entity
\* escapes, strip_html(strip_html(x)) = strip_html(x).
IdempotentOnPlainText ==
    (twice.done /\ NoTags(x) /\ NoEscapes(x)) => twice.text = once.text

\* a plain text that strip_html changes, holding "&", "<" and white space
PlainTextStripped ==
    /\ twice.done /\ NoTags(x) /\ NoEscapes(x)
    /\ once.text # x
    /\ {"&", "<"} \subseteq Range(once.text)

-----------------------------------------------------------------------------
(* The readers when the note source fails                                  *)

\* the note source is unavailable (the osascript command is missing or
\* reports an error) or yields zero parsed notes
SourceFails(src) ==
    \/ ~src.found
    \/ src.returncode # 0
    \/ IsPrefixAt(src.stdout, 1, <<"E","R","R","O","R",":">>)
    \/ parse_notes(src.stdout) = <<>>

\* C5: when the note source is unavailable or yields zero parsed notes,
\* fetch_notes returns the 3 sample notes: api_notes and api_assess raise
\* nothing, api_notes lists the 3 sample notes and api_assess assesses 3
\* notes.
ReadersFallBackToSamples ==
    (last.op \in {"api_notes", "api_assess"} /\ SourceFails(last.src)) =>
        /\ last.exc = NoExc
        /\ Len(SAMPLE_NOTES) = 3
        /\ last.op = "api_notes" =>
              /\ Len(last.response.notes) = 3
              /\ \A i \in 1..3 :
                    /\ last.response.notes[i].title = SAMPLE_NOTES[i].title
                    /\ last.response.notes[i].folder = SAMPLE_NOTES[i].folder
                    /\ last.response.notes[i].body_html
                       = SAMPLE_NOTES[i].body_html
              /\ last.response.folders = <<<<"I","d","e","a","s">>, <<"I","n","b","o","x">>, <<"P","e","r","s","o","n","a","l">>>>
        /\ last.op = "api_assess" =>
              /\ last.response.total = 3
              /\ last.response.buckets # <<>>

\* api_notes has answered for a source that ran and gave no note
ListedSamplesForEmptySource ==
    /\ last.op = "api_notes"
    /\ last.src.found /\ last.src.returncode = 0
    /\ ~IsPrefixAt(last.src.stdout, 1, <<"E","R","R","O","R",":">>)
    /\ last.src.stdout # <<>>
    /\ parse_notes(last.src.stdout) = <<>>
    /\ Len(last.response.notes) = 3

\* C6: when the note source fails or yields zero notes, main ends with an
\* error before it reaches export_notes: it writes no file, so the sample
\* notes are not exported in place of real notes.
MainFailsBeforeExport ==
    (last.op = "main" /\ SourceFails(last.src)) =>
        /\ last.exc # NoExc
        /\ ~last.exported
        /\ last.written = <<>>
        /\ last.response = None
        /\ files = last.before

\* main has failed on a file system that holds the files of an earlier run
MainFailedAfterExport ==
    /\ last.op = "main" /\ SourceFails(last.src)
    /\ last.exc.type = "NotesExportError"
    /\ files # <<>>

-----------------------------------------------------------------------------
(* export_notes: the files of one call and of several                      *)

\* the arguments of the export_notes call of the latest handler or command
ExportedNotes ==
    IF last.op = "api_export" THEN FetchedOf[last.src]
    ELSE ReadOf[last.src].value
ExportedFormat ==
    IF last.op = "api_export" THEN Get(last.args, "format", <<"m","a","r","k","d","o","w","n">>)
    ELSE last.args.format
ExportedOverrides ==
    IF last.op = "api_export" THEN Get(last.args, "overrides", <<>>)
    ELSE <<>>
ExportedDir ==
    IF last.op = "api_export"
    THEN Resolve(Get(last.args, "output_dir", <<"n","o","t","e","s","-","e","x","p","o","r","t">>))
    ELSE Resolve(last.args.output)

\* the (effectiveFolder, title) pair of a note
FolderAndTitle(record) ==
    <<FolderName(record, ExportedOverrides), record.title>>

\* C2: when the (effectiveFolder, title) pairs of the notes of one
\* export_notes call are pairwise distinct, the call writes exactly
\* len(notes) distinct files.
DistinctNotesDistinctFiles ==
    (/\ last.exported /\ last.exc = NoExc
     /\ \A i, j \in DOMAIN ExportedNotes :
            i # j => FolderAndTitle(ExportedNotes[i])
                     # FolderAndTitle(ExportedNotes[j]))
    => /\ Cardinality(Range(last.written)) = Len(ExportedNotes)
       /\ Range(last.written) \subseteq DOMAIN files

\* the extension the format is to give: md for markdown, html for html
Extension(output_format) ==
    IF output_format = <<"m","a","r","k","d","o","w","n">> THEN <<"m","d">> ELSE output_format

\* C3: every file export_notes writes is at
\* outputDir/slug(effectiveFolder)/slug(title)-timestamp.ext where ext is md
\* for the format markdown and html for the format html.
PathsMatchFormat ==
    (/\ last.exported /\ last.exc = NoExc
     /\ ExportedFormat \in {<<"m","a","r","k","d","o","w","n">>, <<"h","t","m","l">>})
    => \A i \in DOMAIN last.written :
          last.written[i]
          = Join(Join(ExportedDir,
                      slugify(OrUncategorized(
                          FolderName(ExportedNotes[i], ExportedOverrides)))),
                 slugify(ExportedNotes[i].title) \o <<"-">> \o strftime(last.at)
                 \o <<".">> \o Extension(ExportedFormat))

\* C4: two export_notes calls never write to the same path: no call writes
\* to a path where a file of an earlier call is (every file there is was
\* written by an export_notes call).
CallsNeverShareAPath ==
    last.exported => Range(last.written) \cap DOMAIN last.before = {}

\* the note whose write was the last to the path p among the first k notes
LastWriter(p, k) == Max({j \in 1..k : last.written[j] = p})

\* the file at the j-th path written holds what the last of the notes
\* written there wrote
FileAsWritten(j) ==
    /\ last.written[j] \in DOMAIN files
    /\ files[last.written[j]]
       = format_note(ExportedNotes[LastWriter(last.written[j],
                                               Len(last.written))],
                     ExportedFormat)

\* C8 as stated: when export_notes fails with a file system error at the
\* k-th note, the call returns no path list and the files written for the
\* notes 1..k-1 stay as written; a failure to create the output directory
\* leaves no file written.
FailureKeepsEarlierFiles ==
    (last.exported /\ last.exc # NoExc) =>
        /\ last.response = None
        /\ Len(last.written) = Max({last.fault.at - 1, 0})
        /\ \A j \in DOMAIN last.written : FileAsWritten(j)
        /\ last.fault.at = 0 => files = last.before

\* C8: when export_notes fails with a file system error at the k-th note,
\* the call returns no path list and the files written for the notes 1..k-1
\* at paths other than the k-th note's own path stay as written; a failure
\* to create the output directory leaves no file written.
FailureKeepsOtherFiles ==
    (last.exported /\ last.exc # NoExc) =>
        /\ last.response = None
        /\ Len(last.written) = Max({last.fault.at - 1, 0})
        /\ \A j \in DOMAIN last.written :
              last.written[j] # last.exc.msg => FileAsWritten(j)
        /\ last.fault.at = 0 => files = last.before

\* the write of the third note has failed after two other files were written
FailedAfterTwoFiles ==
    /\ last.exported /\ last.exc # NoExc
    /\ last.fault = [at |-> 3, kind |-> "write"]
    /\ Cardinality(Range(last.written)) = 2
    /\ last.exc.msg \notin Range(last.written)
    /\ files[last.exc.msg] = <<>>

====
